---- MODULE Spec2Model ----
(***************************************************************************)
(* Model of the IArena replay engine of leaderboard_ui/js/leaderboard.js:  *)
(* parseEvents (the timeline builder), updateReplayView (the suspicion     *)
(* heuristic and the typing timer), stepReplay, toggleAutoPlay and         *)
(* autoPlayLoop (the playback controller), and renderIArena (session       *)
(* load).                                                                  *)
(*                                                                         *)
(* JavaScript values are modelled as follows.  An object is a function     *)
(* whose domain is the set of its property names; a property that is       *)
(* absent is absent from the domain and reads as `undefined`.  A data      *)
(* string is a TLA+ string.  A string built by a template literal is the   *)
(* sequence of the pieces it concatenates; Flatten gives its characters.   *)
(* Array indices are 0-based in the source and in currentIndex; the model  *)
(* reads events[currentIndex + 1].                                         *)
(***************************************************************************)
EXTENDS Integers, Sequences, FiniteSets, TLC

VARIABLES rawData, pc, replayState, intervals, autoLoops, stoppedLoops

vars == <<rawData, pc, replayState, intervals, autoLoops, stoppedLoops>>

----------------------------------------------------------------------------
(* Bounds of the model *)

MaxGameLog == 2
MaxActionLog == 2
MaxSession == 2
MaxLoops == 2

(* Program constants *)

SuspicionStep == 15
MaxSuspicion == 100

----------------------------------------------------------------------------
(* JavaScript values *)

undefined == "<undefined>"
null == << >>

Get(obj, f) == IF f \in DOMAIN obj THEN obj[f] ELSE undefined

Truthy(v) == v # undefined /\ v # ""

String(v) == IF v = undefined THEN "undefined" ELSE v

Min(a, b) == IF a < b THEN a ELSE b
Max(a, b) == IF a > b THEN a ELSE b

NumToString(n) == <<"0", "1", "2", "3", "4", "5", "6", "7", "8", "9">>[n + 1]

toUpperCase(s) ==
  CASE s = "day" -> "DAY"
    [] s = "night" -> "NIGHT"
    [] s = "villagers" -> "VILLAGERS"
    [] s = "werewolves" -> "WEREWOLVES"

OptToUpperCase(v) == IF v = undefined THEN undefined ELSE toUpperCase(v)

Chars(s) ==
  CASE s = "ARCHIVO RECUPERADO. PROTOCOLO DE VIGILANCIA ACTIVADO. IDENTIDADES ENCRIPTRADAS." ->
       <<"A", "R", "C", "H", "I", "V", "O", " ", "R", "E", "C", "U", "P", "E", "R", "A", "D", "O", ".", " ", "P", "R", "O", "T", "O", "C", "O", "L", "O", " ", "D", "E", " ", "V", "I", "G", "I", "L", "A", "N", "C", "I", "A", " ", "A", "C", "T", "I", "V", "A", "D", "O", ".", " ", "I", "D", "E", "N", "T", "I", "D", "A", "D", "E", "S", " ", "E", "N", "C", "R", "I", "P", "T", "R", "A", "D", "A", "S", ".">>
  [] s = "REGISTRO: " ->
       <<"R", "E", "G", "I", "S", "T", "R", "O", ":", " ">>
  [] s = " ejecutó " ->
       <<" ", "e", "j", "e", "c", "u", "t", "ó", " ">>
  [] s = " sobre " ->
       <<" ", "s", "o", "b", "r", "e", " ">>
  [] s = "N/A" ->
       <<"N", "/", "A">>
  [] s = "." ->
       <<".">>
  [] s = "ACTIVIDAD DETECTADA EN SOMBRAS. ELIMINACIÓN EN PROGRESO." ->
       <<"A", "C", "T", "I", "V", "I", "D", "A", "D", " ", "D", "E", "T", "E", "C", "T", "A", "D", "A", " ", "E", "N", " ", "S", "O", "M", "B", "R", "A", "S", ".", " ", "E", "L", "I", "M", "I", "N", "A", "C", "I", "Ó", "N", " ", "E", "N", " ", "P", "R", "O", "G", "R", "E", "S", "O", ".">>
  [] s = "VOTACIÓN FINALIZADA. SUJETO " ->
       <<"V", "O", "T", "A", "C", "I", "Ó", "N", " ", "F", "I", "N", "A", "L", "I", "Z", "A", "D", "A", ".", " ", "S", "U", "J", "E", "T", "O", " ">>
  [] s = " HA SIDO EXPULSADO DEL PERÍMETRO." ->
       <<" ", "H", "A", " ", "S", "I", "D", "O", " ", "E", "X", "P", "U", "L", "S", "A", "D", "O", " ", "D", "E", "L", " ", "P", "E", "R", "Í", "M", "E", "T", "R", "O", ".">>
  [] s = "RECONSTRUCCIÓN FINALIZADA. FACCION VICTORIOSA: " ->
       <<"R", "E", "C", "O", "N", "S", "T", "R", "U", "C", "C", "I", "Ó", "N", " ", "F", "I", "N", "A", "L", "I", "Z", "A", "D", "A", ".", " ", "F", "A", "C", "C", "I", "O", "N", " ", "V", "I", "C", "T", "O", "R", "I", "O", "S", "A", ":", " ">>
  [] s = ". CARGANDO IDENTIDADES REALES..." ->
       <<".", " ", "C", "A", "R", "G", "A", "N", "D", "O", " ", "I", "D", "E", "N", "T", "I", "D", "A", "D", "E", "S", " ", "R", "E", "A", "L", "E", "S", ".", ".", ".">>
  [] s = "P1" ->
       <<"P", "1">>
  [] s = "P2" ->
       <<"P", "2">>
  [] s = "P3" ->
       <<"P", "3">>
  [] s = "vote" ->
       <<"v", "o", "t", "e">>
  [] s = "debate" ->
       <<"d", "e", "b", "a", "t", "e">>
  [] s = "undefined" ->
       <<"u", "n", "d", "e", "f", "i", "n", "e", "d">>
  [] s = "VILLAGERS" ->
       <<"V", "I", "L", "L", "A", "G", "E", "R", "S">>
  [] s = "Acuso a P1" ->
       <<"A", "c", "u", "s", "o", " ", "a", " ", "P", "1">>
  [] s = "No SOSPECHO" ->
       <<"N", "o", " ", "S", "O", "S", "P", "E", "C", "H", "O">>
  [] s = "ok" ->
       <<"o", "k">>
  [] s = "acus" ->
       <<"a", "c", "u", "s">>
  [] s = "sospech" ->
       <<"s", "o", "s", "p", "e", "c", "h">>

RECURSIVE Flatten(_)
Flatten(text) ==
  IF text = << >> THEN << >> ELSE Chars(Head(text)) \o Flatten(Tail(text))

UpperLetters ==
  <<"A", "B", "C", "D", "E", "F", "G", "H", "I", "J", "K", "L", "M", "N", "O", "P", "Q", "R", "S", "T", "U", "V", "W", "X", "Y", "Z", "Á", "É", "Í", "Ó", "Ú", "Ñ">>
LowerLetters ==
  <<"a", "b", "c", "d", "e", "f", "g", "h", "i", "j", "k", "l", "m", "n", "o", "p", "q", "r", "s", "t", "u", "v", "w", "x", "y", "z", "á", "é", "í", "ó", "ú", "ñ">>

LowerTable ==
  [c \in {UpperLetters[i] : i \in 1..Len(UpperLetters)} |->
     LowerLetters[CHOOSE i \in 1..Len(UpperLetters) : UpperLetters[i] = c]]

LowerChar(c) == IF c \in DOMAIN LowerTable THEN LowerTable[c] ELSE c

toLowerCase(chars) == [i \in 1..Len(chars) |-> LowerChar(chars[i])]

includes(chars, needle) ==
  \E i \in 1..(Len(chars) - Len(needle) + 1) :
    SubSeq(chars, i, i + Len(needle) - 1) = needle

----------------------------------------------------------------------------
(* The raw session records the model draws from *)

RolesMap == [p \in {"P1", "P2"} |-> IF p = "P1" THEN "werewolf" ELSE "villager"]

GameLogEntries ==
  { [event |-> "role_assignment", roles |-> RolesMap],
    [event |-> "role_assignment"],
    [event |-> "night_phase", round |-> 1],
    [event |-> "vote_exile", round |-> 1, exiled |-> "P3"] }

ActionLogEntries ==
  { [player |-> "P1", action |-> "vote", decision |-> "P2", round |-> 1, phase |-> "day"],
    [player |-> "P2", action |-> "debate", reasoning |-> "Acuso a P1", round |-> 1, phase |-> "day"],
    [player |-> "P2", action |-> "debate", reasoning |-> "ok", round |-> 1, phase |-> "night"],
    [player |-> "P1", action |-> "debate", reasoning |-> "No SOSPECHO", round |-> 1, phase |-> "day"] }

SeqsUpTo(S, n) == UNION {[1..k -> S] : k \in 0..n}

OptField(name, vals) == {<< >>} \cup {name :> v : v \in vals}

Games ==
  { g @@ a @@ w :
      g \in OptField("game_log", SeqsUpTo(GameLogEntries, MaxGameLog)),
      a \in OptField("action_log", SeqsUpTo(ActionLogEntries, MaxActionLog)),
      w \in OptField("winner", {"villagers"}) }

ParticipantMaps == { [p \in {"P1", "P2"} |-> "agent"] }

RawRecords ==
  { ("results" :> <<g>>) @@ p : g \in Games, p \in OptField("participants", ParticipantMaps) }

logLength(g, field) == IF field \in DOMAIN g THEN Len(g[field]) ELSE 0

(* the records whose session is played back: a named winner and at most     *)
(* MaxSession log entries                                                  *)
SessionRecords ==
  { doc \in RawRecords :
      /\ "winner" \in DOMAIN doc.results[1]
      /\ logLength(doc.results[1], "game_log") + logLength(doc.results[1], "action_log")
           <= MaxSession }

----------------------------------------------------------------------------
(* parseEvents *)

roleLogOf(game) ==
  LET idx == {i \in 1..Len(game.game_log) : game.game_log[i].event = "role_assignment"}
  IN  IF idx = {} THEN null
      ELSE game.game_log[CHOOSE i \in idx : \A j \in idx : i <= j]

roleEventsPerEntry(game) ==
  LET idx == {i \in 1..Len(game.game_log) : game.game_log[i].event = "role_assignment"}
  IN  [i \in 1..Cardinality(idx) |->
         [type |-> "SYSTEM",
          text |-> <<"ARCHIVO RECUPERADO. PROTOCOLO DE VIGILANCIA ACTIVADO. IDENTIDADES ENCRIPTRADAS.">>,
          meta |-> <<"ESTADO: INICIAL">>]]

roleEvents(game) ==
  IF roleLogOf(game) # null
  THEN << [type |-> "SYSTEM",
           text |-> <<"ARCHIVO RECUPERADO. PROTOCOLO DE VIGILANCIA ACTIVADO. IDENTIDADES ENCRIPTRADAS.">>,
           meta |-> <<"ESTADO: INICIAL">>] >>
  ELSE << >>

actionEventFlagged(log) ==
  [type |-> IF Get(log, "action") = "debate" THEN "SPEAK" ELSE "ACTION",
   actor |-> Get(log, "player"),
   text |-> IF Truthy(Get(log, "reasoning"))
            THEN <<log.reasoning>>
            ELSE <<"REGISTRO: ", String(Get(log, "player")), " ejecutó ",
                   String(Get(log, "action")), " sobre ",
                   IF Truthy(Get(log, "decision")) THEN log.decision ELSE "N/A", ".">>,
   meta |-> <<"TICK: R", NumToString(log.round), " - ",
              String(OptToUpperCase(Get(log, "phase")))>>,
   decision |-> Get(log, "decision"),
   phase |-> Get(log, "phase"),
   isElimination |-> Get(log, "action") = "vote"]

actionEvent(log) ==
  [type |-> IF Get(log, "action") = "debate" THEN "SPEAK" ELSE "ACTION",
   actor |-> Get(log, "player"),
   text |-> IF Truthy(Get(log, "reasoning"))
            THEN <<log.reasoning>>
            ELSE <<"REGISTRO: ", String(Get(log, "player")), " ejecutó ",
                   String(Get(log, "action")), " sobre ",
                   IF Truthy(Get(log, "decision")) THEN log.decision ELSE "N/A", ".">>,
   meta |-> <<"TICK: R", NumToString(log.round), " - ",
              String(OptToUpperCase(Get(log, "phase")))>>,
   decision |-> Get(log, "decision"),
   phase |-> Get(log, "phase")]

actionEventsReversed(game) ==
  LET actionLogs == IF "action_log" \in DOMAIN game THEN game.action_log ELSE << >>
  IN  [i \in 1..Len(actionLogs) |-> actionEvent(actionLogs[Len(actionLogs) + 1 - i])]

actionEvents(game) ==
  LET actionLogs == IF "action_log" \in DOMAIN game THEN game.action_log ELSE << >>
  IN  [i \in 1..Len(actionLogs) |-> actionEvent(actionLogs[i])]

RECURSIVE fallbackEventsReversed(_)
fallbackEventsReversed(gameLog) ==
  IF gameLog = << >> THEN << >>
  ELSE LET log == Head(gameLog)
           ev == IF log.event = "night_phase"
                 THEN << [type |-> "SYSTEM",
                          text |-> <<"ACTIVIDAD DETECTADA EN SOMBRAS. ELIMINACIÓN EN PROGRESO.">>,
                          meta |-> <<"TICK: R", NumToString(log.round), " - NOCHE">>] >>
                 ELSE IF log.event = "vote_exile"
                 THEN << [type |-> "ACTION",
                          text |-> <<"VOTACIÓN FINALIZADA. SUJETO ", String(Get(log, "exiled")),
                                     " HA SIDO EXPULSADO DEL PERÍMETRO.">>,
                          meta |-> <<"TICK: R", NumToString(log.round), " - DÍA">>,
                          actor |-> Get(log, "exiled"),
                          isElimination |-> TRUE] >>
                 ELSE << >>
       IN  fallbackEventsReversed(Tail(gameLog)) \o ev

RECURSIVE fallbackEvents(_)
fallbackEvents(gameLog) ==
  IF gameLog = << >> THEN << >>
  ELSE LET log == Head(gameLog)
           ev == IF log.event = "night_phase"
                 THEN << [type |-> "SYSTEM",
                          text |-> <<"ACTIVIDAD DETECTADA EN SOMBRAS. ELIMINACIÓN EN PROGRESO.">>,
                          meta |-> <<"TICK: R", NumToString(log.round), " - NOCHE">>] >>
                 ELSE IF log.event = "vote_exile"
                 THEN << [type |-> "ACTION",
                          text |-> <<"VOTACIÓN FINALIZADA. SUJETO ", String(Get(log, "exiled")),
                                     " HA SIDO EXPULSADO DEL PERÍMETRO.">>,
                          meta |-> <<"TICK: R", NumToString(log.round), " - DÍA">>,
                          actor |-> Get(log, "exiled"),
                          isElimination |-> TRUE] >>
                 ELSE << >>
       IN  ev \o fallbackEvents(Tail(gameLog))

useFallback(game, events) == Len(events) <= 1 /\ "game_log" \in DOMAIN game

revealEvent(game) ==
  LET roleLog == roleLogOf(game)
      base == [type |-> "REVEAL",
               text |-> <<"RECONSTRUCCIÓN FINALIZADA. FACCION VICTORIOSA: ",
                          String(OptToUpperCase(Get(game, "winner"))),
                          ". CARGANDO IDENTIDADES REALES...">>,
               meta |-> <<"ESTADO: CIERRE">>]
  IN  IF roleLog = null THEN base @@ ("roles" :> << >>)
      ELSE IF "roles" \in DOMAIN roleLog THEN base @@ ("roles" :> roleLog.roles)
      ELSE base

parseEventsThrows(game) == "game_log" \notin DOMAIN game

parseEventsRevealEarly(game) ==
  LET primary == roleEvents(game) \o actionEvents(game) \o <<revealEvent(game)>>
  IN  IF useFallback(game, primary)
      THEN primary \o fallbackEvents(game.game_log)
      ELSE primary

parseEvents(game) ==
  LET primary == roleEvents(game) \o actionEvents(game)
      withFallback == IF useFallback(game, primary)
                      THEN primary \o fallbackEvents(game.game_log)
                      ELSE primary
  IN  withFallback \o <<revealEvent(game)>>

----------------------------------------------------------------------------
(* updateReplayView: the typing timer and the suspicion heuristic.  The    *)
(* DOM writes (progress bar, dialog text, node classes) are presentation   *)
(* and are not part of the state.                                          *)

clearIntervalNoOp(timers, handle) == timers

clearInterval(timers, handle) == {t \in timers : t.id # handle}

setInterval(timers) ==
  CHOOSE n \in 1..(Cardinality(timers) + 1) :
    /\ \A t \in timers : t.id # n
    /\ \A m \in 1..(n - 1) : \E t \in timers : t.id = m

hasMarkerCaseSensitive(event) ==
  \E chars \in {Flatten(event.text)} :
    \/ includes(chars, Chars("acus"))
    \/ includes(chars, Chars("sospech"))

hasMarker(event) ==
  \E chars \in {Flatten(event.text)} :
    \E lower \in {toLowerCase(chars)} :
      \/ includes(lower, Chars("acus"))
      \/ includes(lower, Chars("sospech"))

bumpScoreNoClamp(old) == old + SuspicionStep

bumpScoreWrap(old) ==
  IF old + SuspicionStep > MaxSuspicion THEN 0 ELSE old + SuspicionStep

bumpScore(old) == Min(MaxSuspicion, old + SuspicionStep)

suspicionUpdate(scores, event) ==
  IF Truthy(Get(event, "actor")) /\ (event.type = "ACTION" \/ hasMarker(event))
  THEN LET old == IF event.actor \in DOMAIN scores THEN scores[event.actor] ELSE 0
       IN  (event.actor :> bumpScore(old)) @@ scores
  ELSE scores

updateReplayView(w) ==
  LET rs == w.replayState
      cleared == IF rs.typingInterval # 0
                 THEN clearInterval(w.intervals, rs.typingInterval)
                 ELSE w.intervals
  IN  IF rs.currentIndex \notin 0..(Len(rs.events) - 1)
      THEN [replayState |-> rs, intervals |-> cleared]
      ELSE LET event == rs.events[rs.currentIndex + 1]
               handle == setInterval(cleared)
           IN  [replayState |->
                  [rs EXCEPT !.typingInterval = handle,
                             !.suspicionScores = suspicionUpdate(@, event)],
                intervals |-> cleared \cup {[id |-> handle, event |-> rs.currentIndex]}]

----------------------------------------------------------------------------
(* stepReplay, toggleAutoPlay, autoPlayLoop *)

clampIndexNoFloor(len, i) == Min(len - 1, i)

clampIndexBelowLast(len, i) == Max(0, Min(len - 2, i))

clampIndex(len, i) == Max(0, Min(len - 1, i))

stepReplayStopsAutoPlay(w, delta) ==
  IF Len(w.replayState.events) = 0 THEN w
  ELSE updateReplayView(
         [w EXCEPT !.replayState.currentIndex =
                     clampIndex(Len(w.replayState.events), @ + delta),
                   !.replayState.autoPlay = FALSE])

stepReplay(w, delta) ==
  IF Len(w.replayState.events) = 0 THEN w
  ELSE updateReplayView(
         [w EXCEPT !.replayState.currentIndex =
                     clampIndex(Len(w.replayState.events), @ + delta)])

loopConditionNoBound(rs) == rs.autoPlay

loopCondition(rs) == rs.autoPlay /\ rs.currentIndex < Len(rs.events) - 1

progressOverLength(rs) ==
  IF Len(rs.events) > 1
  THEN <<rs.currentIndex * 100, Len(rs.events)>>
  ELSE <<100, 1>>

(* the width of ia-progress-fill, as the exact fraction <<numerator,       *)
(* denominator>> of the quotient the source computes in floating point     *)
progress(rs) ==
  IF Len(rs.events) > 1
  THEN <<rs.currentIndex * 100, Len(rs.events) - 1>>
  ELSE <<100, 1>>

World == [replayState |-> replayState, intervals |-> intervals]

Deltas == {-1, 1}

loadSessionNoSeed(w, doc) ==
  updateReplayView(
    [w EXCEPT !.replayState.events = parseEvents(doc.results[1]),
              !.replayState.currentIndex = 0,
              !.replayState.suspicionScores = << >>])

(* renderIArena lines 207-225, for a record that parses and has participants *)
loadSession(w, doc) ==
  updateReplayView(
    [w EXCEPT !.replayState.events = parseEvents(doc.results[1]),
              !.replayState.currentIndex = 0,
              !.replayState.suspicionScores = [p \in DOMAIN doc.participants |-> 0]])

----------------------------------------------------------------------------
(* The state machine *)

InitWith(records) ==
  /\ rawData \in {null} \cup records
  /\ pc = "fetch"
  /\ replayState = [events |-> << >>, currentIndex |-> 0, autoPlay |-> FALSE,
                    typingInterval |-> 0, suspicionScores |-> << >>]
  /\ intervals = {}
  /\ autoLoops = 0
  /\ stoppedLoops = 0

Init == InitWith(SessionRecords)

RenderCorruptedBinds ==
  /\ pc = "fetch"
  /\ rawData = null
  /\ pc' = "ready"
  /\ UNCHANGED <<rawData, replayState, intervals, autoLoops, stoppedLoops>>

(* renderIArena, fetchData returned null: the corrupted-archive page *)
RenderCorrupted ==
  /\ pc = "fetch"
  /\ rawData = null
  /\ pc' = "corrupted"
  /\ UNCHANGED <<rawData, replayState, intervals, autoLoops, stoppedLoops>>

(* renderIArena, parseEvents throws on game.game_log.find *)
RenderParseThrows ==
  /\ pc = "fetch"
  /\ rawData # null
  /\ parseEventsThrows(rawData.results[1])
  /\ pc' = "threw"
  /\ UNCHANGED <<rawData, replayState, intervals, autoLoops, stoppedLoops>>

(* renderIArena, Object.keys(participants) throws on undefined *)
RenderKeysThrows ==
  /\ pc = "fetch"
  /\ rawData # null
  /\ ~parseEventsThrows(rawData.results[1])
  /\ "participants" \notin DOMAIN rawData
  /\ pc' = "threw"
  /\ replayState' = [replayState EXCEPT !.events = parseEvents(rawData.results[1]),
                                        !.currentIndex = 0,
                                        !.suspicionScores = << >>]
  /\ UNCHANGED <<rawData, intervals, autoLoops, stoppedLoops>>

(* renderIArena, the session is loaded and the first event shown *)
RenderIArena ==
  /\ pc = "fetch"
  /\ rawData # null
  /\ ~parseEventsThrows(rawData.results[1])
  /\ "participants" \in DOMAIN rawData
  /\ LET w == loadSession(World, rawData)
     IN  /\ replayState' = w.replayState
         /\ intervals' = w.intervals
  /\ pc' = "ready"
  /\ UNCHANGED <<rawData, autoLoops, stoppedLoops>>

(* ia-btn-next / ia-btn-prev *)
StepReplay(delta) ==
  /\ pc = "ready"
  /\ LET w == stepReplay(World, delta)
     IN  /\ replayState' = w.replayState
         /\ intervals' = w.intervals
  /\ UNCHANGED <<rawData, pc, autoLoops, stoppedLoops>>

(* ia-btn-auto: flips autoPlay and runs autoPlayLoop up to its first await. *)
(* The suspended loops resume in the order of their setTimeout calls, all  *)
(* with the same delay; stoppedLoops counts the loops at the head of that  *)
(* order that were suspended when autoPlay was last switched off and have  *)
(* not resumed since.                                                      *)
ToggleAutoPlay ==
  /\ pc = "ready"
  /\ LET flipped == [World EXCEPT !.replayState.autoPlay = ~@]
     IN  IF flipped.replayState.autoPlay /\ loopCondition(flipped.replayState)
         THEN /\ autoLoops < MaxLoops
              /\ LET w == stepReplay(flipped, 1)
                 IN  /\ replayState' = w.replayState
                     /\ intervals' = w.intervals
              /\ autoLoops' = autoLoops + 1
         ELSE /\ replayState' = flipped.replayState
              /\ UNCHANGED <<intervals, autoLoops>>
  /\ stoppedLoops' = IF replayState.autoPlay THEN autoLoops ELSE stoppedLoops
  /\ UNCHANGED <<rawData, pc>>

(* the 3000 ms timeout of a suspended autoPlayLoop fires *)
AutoPlayResume ==
  /\ autoLoops > 0
  /\ IF loopCondition(replayState)
     THEN /\ LET w == stepReplay(World, 1)
             IN  /\ replayState' = w.replayState
                 /\ intervals' = w.intervals
          /\ UNCHANGED autoLoops
     ELSE /\ autoLoops' = autoLoops - 1
          /\ UNCHANGED <<replayState, intervals>>
  /\ stoppedLoops' = Max(0, stoppedLoops - 1)
  /\ UNCHANGED <<rawData, pc>>

(* a tick of a typing timer that finds the whole text revealed *)
TypingFinish ==
  /\ \E t \in intervals :
       intervals' = clearInterval(intervals, replayState.typingInterval)
  /\ intervals' # intervals
  /\ UNCHANGED <<rawData, pc, replayState, autoLoops, stoppedLoops>>

Next ==
  \/ RenderCorrupted
  \/ RenderParseThrows
  \/ RenderKeysThrows
  \/ RenderIArena
  \/ \E delta \in Deltas : StepReplay(delta)
  \/ ToggleAutoPlay
  \/ AutoPlayResume
  \/ TypingFinish

Spec == Init /\ [][Next]_vars

(* Session load alone, over every record of RawRecords: the specification  *)
(* under which the properties of parseEvents are checked.                  *)
BuildInit == InitWith(RawRecords)

BuildNext ==
  \/ RenderCorrupted
  \/ RenderParseThrows
  \/ RenderKeysThrows
  \/ RenderIArena

BuildSpec == BuildInit /\ [][BuildNext]_vars

(* Unattended playback: the user browses and may switch autoPlay on; once  *)
(* it is on, only timers fire.  The event loop runs every timer that is    *)
(* due, so the resumption of a suspended autoPlayLoop is weakly fair.      *)
AutoNext ==
  \/ RenderCorrupted
  \/ RenderParseThrows
  \/ RenderKeysThrows
  \/ RenderIArena
  \/ \E delta \in Deltas : ~replayState.autoPlay /\ StepReplay(delta)
  \/ ~replayState.autoPlay /\ ToggleAutoPlay
  \/ AutoPlayResume
  \/ TypingFinish

AutoSpec == Init /\ [][AutoNext]_vars /\ WF_vars(AutoPlayResume)

TypeOK ==
  /\ pc \in {"fetch", "corrupted", "threw", "ready"}
  /\ autoLoops \in 0..MaxLoops
  /\ replayState.autoPlay \in BOOLEAN

----------------------------------------------------------------------------
(* Properties *)

MaxDelta == 3

events == replayState.events
currentIndex == replayState.currentIndex
suspicionScores == replayState.suspicionScores
lastIndex == Len(replayState.events) - 1

game == rawData.results[1]

(* parseEvents has returned and the session is loaded *)
Built == pc = "ready"

(* the state renderIArena leaves behind, before any control is used *)
JustLoaded ==
  /\ pc = "ready"
  /\ World = loadSession([replayState |-> [events |-> << >>, currentIndex |-> 0,
                                           autoPlay |-> FALSE, typingInterval |-> 0,
                                           suspicionScores |-> << >>],
                          intervals |-> {}], rawData)
  /\ autoLoops = 0

RECURSIVE stepTimes(_, _, _)
stepTimes(w, delta, n) ==
  IF n = 0 THEN w ELSE stepTimes(stepReplay(w, delta), delta, n - 1)

RECURSIVE replayScores(_, _, _)
replayScores(evs, k, scores) ==
  IF k < 0 THEN scores
  ELSE suspicionUpdate(replayScores(evs, k - 1, scores), evs[k + 1])

zeroScores == [p \in DOMAIN rawData.participants |-> 0]

scoreOf(scores, p) == IF p \in DOMAIN scores THEN scores[p] ELSE 0

(* C1: from the freshly loaded session, stepping forward to index k, back  *)
(* to an index j < k and forward to k again leaves the same suspicion map  *)
(* as stepping forward to k directly, for every k and every j < k.         *)
C1_BackAndForthSameScores ==
  JustLoaded =>
    \A k \in 1..lastIndex : \A j \in 0..(k - 1) :
      LET straight == stepTimes(World, 1, k)
          back == stepTimes(straight, -1, k - j)
          again == stepTimes(back, 1, k - j)
      IN  again.replayState.suspicionScores = straight.replayState.suspicionScores

(* C2: in every state of a loaded session the suspicion map is the result  *)
(* of applying the heuristic once to each event 0..currentIndex, starting  *)
(* from the all-zero map.                                                  *)
C2_ScoresAreFunctionOfIndex ==
  pc = "ready" =>
    suspicionScores = replayScores(events, currentIndex, zeroScores)

(* C3: in a loaded session currentIndex is in [0, events.length - 1], and  *)
(* stepReplay(delta) leaves currentIndex at currentIndex + delta clamped   *)
(* to that range, for every delta.                                         *)
C3_IndexInRange ==
  pc = "ready" =>
    /\ currentIndex \in 0..lastIndex
    /\ \A delta \in (-MaxDelta)..MaxDelta :
         stepReplay(World, delta).replayState.currentIndex =
           IF currentIndex + delta < 0 THEN 0
           ELSE IF currentIndex + delta > lastIndex THEN lastIndex
           ELSE currentIndex + delta

C3_Witness ==
  /\ pc = "ready"
  /\ lastIndex >= 2
  /\ currentIndex = lastIndex
  /\ replayState.autoPlay
  /\ autoLoops >= 1

(* C4: a step past a boundary (-1 at index 0, +1 at the last index)        *)
(* leaves currentIndex, autoPlay and every suspicion score unchanged.      *)
C4_BoundaryStepIsNoOp ==
  [][\A delta \in Deltas :
       (StepReplay(delta) /\ currentIndex + delta \notin 0..lastIndex) =>
         /\ replayState'.currentIndex = replayState.currentIndex
         /\ replayState'.autoPlay = replayState.autoPlay
         /\ replayState'.suspicionScores = replayState.suspicionScores]_vars

(* C5: every entry of the suspicion map is in [0, 100] in every state.     *)
C5_ScoresInRange ==
  \A p \in DOMAIN suspicionScores : suspicionScores[p] \in 0..100

C5_Witness ==
  /\ pc = "ready"
  /\ \E p \in DOMAIN suspicionScores : suspicionScores[p] = 100
  /\ autoLoops >= 1

isReveal(e) == e.type = "REVEAL"

(* C6: for every record that has a game log, the timeline parseEvents      *)
(* returns is non-empty, holds exactly one REVEAL event and that event is  *)
(* the last one.                                                           *)
C6_EndsWithSingleReveal ==
  Built =>
    /\ Len(events) >= 1
    /\ isReveal(events[Len(events)])
    /\ Cardinality({i \in 1..Len(events) : isReveal(events[i])}) = 1

C6_Witness ==
  /\ Built
  /\ Len(events) = 4
  /\ "winner" \notin DOMAIN game
  /\ roleLogOf(game) = null
  /\ \E i \in 1..Len(events) : "isElimination" \in DOMAIN events[i]

fromMarker(e) ==
  \/ "isElimination" \in DOMAIN e
  \/ e.text = <<"ACTIVIDAD DETECTADA EN SOMBRAS. ELIMINACIÓN EN PROGRESO.">>

hasActions(g) == "action_log" \in DOMAIN g /\ Len(g.action_log) >= 1

(* C7: whenever actionLog has at least one entry, no event of the timeline *)
(* is derived from a night-phase or vote-exile marker of gameLog.          *)
C7_FallbackOnlyWithoutActions ==
  (Built /\ hasActions(game)) =>
    \A i \in 1..Len(events) : ~fromMarker(events[i])

voteEntry ==
  [player |-> "P1", action |-> "vote", decision |-> "P2", round |-> 1, phase |-> "day"]

(* C8: a record whose actionLog is the single vote of P1 on P2 and whose   *)
(* gameLog has no role-assignment entry gives exactly two events, an       *)
(* ACTION of P1 then the REVEAL; once index 0 is shown, P1 scores 15 and   *)
(* P2 scores 0.                                                            *)
C8_SingleVoteExample ==
  (Built /\ hasActions(game) /\ game.action_log = <<voteEntry>>
         /\ roleLogOf(game) = null) =>
    /\ Len(events) = 2
    /\ events[1].type = "ACTION"
    /\ Get(events[1], "actor") = "P1"
    /\ isReveal(events[2])
    /\ JustLoaded =>
         /\ scoreOf(suspicionScores, "P1") = 15
         /\ scoreOf(suspicionScores, "P2") = 0

(* C9: a record with neither gameLog nor actionLog does not fail and       *)
(* gives exactly one event, the REVEAL, with an empty role mapping and     *)
(* the winner rendered as "undefined" when there is none.                  *)
C9_BuildIsTotal ==
  (pc # "fetch" /\ rawData # null
     /\ "game_log" \notin DOMAIN game /\ "action_log" \notin DOMAIN game) =>
    /\ Len(events) = 1
    /\ isReveal(events[1])
    /\ "roles" \in DOMAIN events[1] /\ events[1].roles = << >>
    /\ "winner" \notin DOMAIN game => events[1].text[2] = "undefined"

(* C10: toggleAutoPlay called at the last index leaves currentIndex        *)
(* unchanged and schedules no auto-advance timer.                          *)
C10_ToggleAtEndSchedulesNothing ==
  [][(ToggleAutoPlay /\ currentIndex = lastIndex) =>
       /\ replayState'.currentIndex = replayState.currentIndex
       /\ autoLoops' = autoLoops]_vars

C10_Witness ==
  /\ pc = "ready"
  /\ Len(events) = 1
  /\ currentIndex = lastIndex
  /\ replayState.autoPlay
  /\ autoLoops = 0

(* C11: once toggleAutoPlay has switched autoPlay from true to false, the   *)
(* loop that was suspended at that moment performs no further step on its  *)
(* next resumption and terminates, whatever the user did in between.       *)
C11_StoppedLoopExits ==
  [][(AutoPlayResume /\ stoppedLoops > 0) =>
       /\ replayState' = replayState
       /\ autoLoops' = autoLoops - 1]_vars

(* C12: when autoPlay is switched on below the last index and never        *)
(* switched off, with the timer firing fairly the cursor moves through the *)
(* following indices one by one in increasing order, reaches the last      *)
(* index, and the loop then ends with no timer pending, for good.          *)
C12_AutoPlayRunsToTheEnd ==
  /\ [][replayState.autoPlay =>
          replayState'.currentIndex \in {currentIndex, currentIndex + 1}]_vars
  /\ (replayState.autoPlay /\ autoLoops > 0) ~>
        [](currentIndex = lastIndex /\ autoLoops = 0)

C12_Witness ==
  /\ pc = "ready"
  /\ replayState.autoPlay
  /\ lastIndex >= 2
  /\ currentIndex = lastIndex
  /\ autoLoops = 0
  /\ intervals = {}

(* the steps in which updateReplayView shows an event *)
viewUpdated ==
  \/ RenderIArena
  \/ \E delta \in Deltas : StepReplay(delta)
  \/ ToggleAutoPlay /\ autoLoops' = autoLoops + 1
  \/ AutoPlayResume /\ autoLoops' = autoLoops

(* the texts of the sessions that hold an accusation or suspicion marker   *)
(* in some letter case: "Acuso ..." and "... SOSPECHO"                     *)
MarkedTexts == {<<"Acuso a P1">>, <<"No SOSPECHO">>}

(* C13: a view update adds 15, capped at 100, to the score of the shown    *)
(* event's actor exactly when the event has an actor and is an ACTION or   *)
(* its text holds a marker in any letter case; otherwise every score is    *)
(* unchanged, and no score but the actor's ever changes.                   *)
C13_HeuristicRule ==
  [][viewUpdated =>
       LET e == replayState'.events[replayState'.currentIndex + 1]
           bumps == /\ Truthy(Get(e, "actor"))
                    /\ (e.type = "ACTION" \/ e.text \in MarkedTexts)
       IN  \A p \in DOMAIN suspicionScores \cup DOMAIN replayState'.suspicionScores :
             scoreOf(replayState'.suspicionScores, p) =
               IF bumps /\ p = e.actor
               THEN Min(100, scoreOf(suspicionScores, p) + 15)
               ELSE scoreOf(suspicionScores, p)]_vars

C13_Witness ==
  /\ pc = "ready"
  /\ lastIndex >= 2
  /\ events[currentIndex + 1].type = "SPEAK"
  /\ events[currentIndex + 1].text = <<"No SOSPECHO">>
  /\ scoreOf(suspicionScores, "P1") >= 30
  /\ \E i \in 1..Len(events) : events[i].text = <<"ok">>

(* C14: no step lowers a suspicion score or removes a participant from the *)
(* map; each snapshot is at least the previous one for every participant.  *)
C14_ScoresNeverDecrease ==
  [][\A p \in DOMAIN suspicionScores :
       /\ p \in DOMAIN replayState'.suspicionScores
       /\ replayState'.suspicionScores[p] >= suspicionScores[p]]_vars

C14_Witness ==
  /\ pc = "ready"
  /\ currentIndex = lastIndex
  /\ \E p \in DOMAIN suspicionScores : suspicionScores[p] = 45
  /\ \E p \in DOMAIN suspicionScores : suspicionScores[p] = 0

hasRoleEntry(g) ==
  \E i \in 1..Len(g.game_log) : g.game_log[i].event = "role_assignment"

isIntro(e) ==
  /\ e.type = "SYSTEM"
  /\ e.text = <<"ARCHIVO RECUPERADO. PROTOCOLO DE VIGILANCIA ACTIVADO. IDENTIDADES ENCRIPTRADAS.">>

(* the events built from actionLog entries are the ones with a decision field *)
fromActionLog(e) == "decision" \in DOMAIN e

introOffset(g) == IF hasRoleEntry(g) THEN 1 ELSE 0

(* C15: with a role-assignment entry the timeline has exactly one          *)
(* "archive recovered" SYSTEM event, at index 0, with or without action    *)
(* data; without one there is no such event and the first event built from *)
(* actionLog, if any, is at index 0.                                       *)
C15_SingleIntroEvent ==
  Built =>
    LET intro == {i \in 1..Len(events) : isIntro(events[i])}
    IN  IF hasRoleEntry(game)
        THEN intro = {1}
        ELSE /\ intro = {}
             /\ hasActions(game) =>
                  /\ fromActionLog(events[1])
                  /\ events[1].actor = game.action_log[1].player

C15_Witness ==
  /\ Built
  /\ Len(game.game_log) = 2
  /\ \A i \in 1..2 : game.game_log[i].event = "role_assignment"
  /\ hasActions(game)
  /\ isIntro(events[1])

(* C16: an actionLog of N > 0 entries gives exactly N events built from    *)
(* it, contiguous and in the log's order, the i-th with the i-th entry's   *)
(* player as actor and kind SPEAK for a debate, ACTION otherwise; the      *)
(* block comes right after the single SYSTEM introduction when there is a  *)
(* role entry, first otherwise, and the timeline ends with the REVEAL.     *)
C16_OneEventPerAction ==
  (Built /\ hasActions(game)) =>
    LET N == Len(game.action_log)
        o == introOffset(game)
    IN  /\ {i \in 1..Len(events) : fromActionLog(events[i])} = (o + 1)..(o + N)
        /\ \A i \in 1..N :
             /\ events[o + i].actor = game.action_log[i].player
             /\ events[o + i].type =
                  IF game.action_log[i].action = "debate" THEN "SPEAK" ELSE "ACTION"
        /\ \A i \in 1..o : events[i].type = "SYSTEM"
        /\ Len(events) > o + N
        /\ isReveal(events[Len(events)])

C16_Witness ==
  /\ Built
  /\ hasRoleEntry(game)
  /\ hasActions(game)
  /\ Len(game.action_log) = 2
  /\ game.action_log[1].action = "vote"
  /\ game.action_log[2].action = "debate"
  /\ Len(events) = 4

isMarker(l) == l.event \in {"night_phase", "vote_exile"}

(* C17: with an empty actionLog, the vote-exile and night-phase markers of *)
(* gameLog give one event each, in gameLog order, between the introduction *)
(* (if any) and the REVEAL: an ACTION with isElimination true whose actor  *)
(* is the exiled player, or a SYSTEM event without actor; no other entry   *)
(* gives an event.                                                         *)
C17_FallbackEvents ==
  (Built /\ ~hasActions(game)) =>
    LET markers == SelectSeq(game.game_log, isMarker)
        o == introOffset(game)
    IN  /\ Len(events) = o + Len(markers) + 1
        /\ \A i \in 1..Len(markers) :
             LET e == events[o + i]
                 m == markers[i]
             IN  IF m.event = "vote_exile"
                 THEN /\ e.type = "ACTION"
                      /\ "isElimination" \in DOMAIN e /\ e.isElimination = TRUE
                      /\ Get(e, "actor") = m.exiled
                 ELSE /\ e.type = "SYSTEM"
                      /\ "actor" \notin DOMAIN e
                      /\ "isElimination" \notin DOMAIN e

C17_Witness ==
  /\ Built
  /\ ~hasActions(game)
  /\ Len(game.game_log) = 2
  /\ game.game_log[1].event = "vote_exile"
  /\ game.game_log[2].event = "night_phase"
  /\ Len(events) = 3

(* C18: an event has isElimination = true exactly when it was built from a *)
(* vote-exile marker; no event built from actionLog, and no SYSTEM or      *)
(* REVEAL event, has the flag.                                             *)
C18_EliminationFlag ==
  Built =>
    \A i \in 1..Len(events) :
      LET e == events[i]
          flagged == "isElimination" \in DOMAIN e
          fromExile == /\ ~fromActionLog(e)
                       /\ e.text[1] = "VOTACIÓN FINALIZADA. SUJETO "
      IN  /\ flagged <=> fromExile
          /\ flagged => e.isElimination = TRUE
          /\ (fromActionLog(e) \/ e.type \in {"SYSTEM", "REVEAL"}) => ~flagged

C18_Witness ==
  /\ Built
  /\ \E i \in 1..Len(events) : "isElimination" \in DOMAIN events[i]
  /\ \E i \in 1..Len(events) : fromActionLog(events[i]) /\ events[i].type = "ACTION"
  /\ \E i \in 1..Len(events) : events[i].type = "SYSTEM"

(* C19: the REVEAL carries the role mapping of the role-assignment entry   *)
(* when there is one and an empty mapping otherwise, also when the entry   *)
(* has no roles field; no other event carries a roles mapping.             *)
C19_RevealCarriesRoles ==
  Built =>
    LET reveal == events[Len(events)]
        roleLog == roleLogOf(game)
    IN  /\ "roles" \in DOMAIN reveal
        /\ reveal.roles = IF roleLog # null /\ "roles" \in DOMAIN roleLog
                          THEN roleLog.roles
                          ELSE << >>
        /\ \A i \in 1..(Len(events) - 1) : "roles" \notin DOMAIN events[i]

progressAt(i) == progress([replayState EXCEPT !.currentIndex = i])

(* C20: the progress percentage, as a function of currentIndex, lies in    *)
(* [0, 100], never decreases as the index grows, is 0 at index 0 when      *)
(* there are two or more events, 100 at the last index, and 100 when there *)
(* is a single event.                                                      *)
C20_ProgressPercent ==
  pc = "ready" =>
    /\ \A i \in 0..lastIndex :
         /\ progressAt(i)[2] > 0
         /\ 0 <= progressAt(i)[1]
         /\ progressAt(i)[1] <= 100 * progressAt(i)[2]
    /\ \A i \in 0..(lastIndex - 1) :
         progressAt(i)[1] * progressAt(i + 1)[2] <= progressAt(i + 1)[1] * progressAt(i)[2]
    /\ Len(events) >= 2 => progressAt(0)[1] = 0
    /\ progressAt(lastIndex)[1] = 100 * progressAt(lastIndex)[2]
    /\ Len(events) = 1 => progress(replayState)[1] = 100 * progress(replayState)[2]

C20_Witness ==
  /\ pc = "ready"
  /\ Len(events) = 3
  /\ currentIndex = 1
  /\ progress(replayState) = <<100, 2>>

(* C21: when no record could be fetched the corrupted-archive page is      *)
(* shown, replayState is as constructed and neither the step nor the       *)
(* toggle control is bound; and with an empty events list stepReplay       *)
(* changes nothing, so currentIndex never points outside the list.         *)
C21_LoadFailureLeavesStateAlone ==
  /\ (rawData = null /\ pc # "fetch") => pc = "corrupted"
  /\ pc = "corrupted" =>
       /\ rawData = null
       /\ replayState = [events |-> << >>, currentIndex |-> 0, autoPlay |-> FALSE,
                         typingInterval |-> 0, suspicionScores |-> << >>]
       /\ intervals = {}
       /\ autoLoops = 0
       /\ ~ENABLED ((\E delta \in Deltas : StepReplay(delta)) \/ ToggleAutoPlay)
  /\ Len(events) = 0 =>
       /\ currentIndex = 0
       /\ \A delta \in Deltas : stepReplay(World, delta) = World

C21_Witness ==
  /\ pc = "corrupted"
  /\ rawData = null
  /\ Len(events) = 0

actors == {events[i].actor : i \in {j \in 1..Len(events) : "actor" \in DOMAIN events[j]}}

(* C22: once the session is loaded every key of participants has a score;  *)
(* right after the load it is 0 for every participant but the actor of     *)
(* the first event, and a participant who is the actor of no event has     *)
(* score 0 in every state.                                                 *)
C22_ParticipantsSeeded ==
  pc = "ready" =>
    /\ DOMAIN rawData.participants \subseteq DOMAIN suspicionScores
    /\ \A p \in DOMAIN rawData.participants :
         /\ p \notin actors => suspicionScores[p] = 0
         /\ (JustLoaded /\ Get(events[1], "actor") # p) => suspicionScores[p] = 0

C22_Witness ==
  /\ pc = "ready"
  /\ currentIndex = lastIndex
  /\ lastIndex >= 2
  /\ actors = {"P1"}
  /\ suspicionScores["P1"] >= 30
  /\ suspicionScores["P2"] = 0

(* C23: at most one typing timer is active at any time, it is the one     *)
(* replayState.typingInterval holds and it reveals events[currentIndex]:   *)
(* every view update cancels the previous timer before starting the next.  *)
C23_SingleTypingTimer ==
  /\ Cardinality(intervals) <= 1
  /\ \A t \in intervals :
       /\ t.id = replayState.typingInterval
       /\ t.event = currentIndex

C23_Witness ==
  /\ pc = "ready"
  /\ currentIndex = 2
  /\ autoLoops >= 1
  /\ intervals = {[id |-> replayState.typingInterval, event |-> 2]}

(* C24: at most one auto-advance loop is suspended on its delay timer at   *)
(* any time, whatever the order of toggleAutoPlay calls and timer firings. *)
C24_SingleAutoLoop ==
  autoLoops <= 1

(* C25: whenever autoPlay is true and the cursor is below the last index,  *)
(* an auto-advance loop is pending, also after the loop has reached the    *)
(* last event and the user has stepped back.                               *)
C25_AutoPlayMeansLoopPending ==
  (pc = "ready" /\ replayState.autoPlay /\ currentIndex < lastIndex) => autoLoops >= 1

(* C26: toggleAutoPlay switching autoPlay on below the last index performs *)
(* exactly one step forward at once and then waits on its timer; switching *)
(* it off changes nothing but the autoPlay flag; stepReplay never changes  *)
(* autoPlay or the events list.                                            *)
C26_ToggleAndStepFrames ==
  [][/\ ToggleAutoPlay =>
          IF replayState.autoPlay
          THEN /\ replayState' = [replayState EXCEPT !.autoPlay = FALSE]
               /\ intervals' = intervals
               /\ autoLoops' = autoLoops
          ELSE /\ replayState'.autoPlay
               /\ replayState'.events = events
               /\ currentIndex < lastIndex =>
                    /\ replayState'.currentIndex = currentIndex + 1
                    /\ autoLoops' = autoLoops + 1
     /\ \A delta \in Deltas :
          StepReplay(delta) =>
            /\ replayState'.autoPlay = replayState.autoPlay
            /\ replayState'.events = events]_vars

C26_Witness ==
  /\ pc = "ready"
  /\ ~replayState.autoPlay
  /\ autoLoops = 1
  /\ stoppedLoops = 1
  /\ currentIndex = 1
  /\ lastIndex >= 2

(* C27: the keys of the suspicion map are those of participants from the   *)
(* load on; no step, toggle or timer adds or removes a key, even when an   *)
(* event's actor is not a participant.                                     *)
C27_KeySetFixed ==
  pc = "ready" => DOMAIN suspicionScores = DOMAIN rawData.participants

====
